---- MODULE Spec2Model ----
(***************************************************************************)
(* Fertilizer price pipeline of download_data.py: the filename date        *)
(* inferrer, the currency normalizer, the table-row classifier of          *)
(* parse_pdf, and the corpus aggregator process_fertilizer_data with its   *)
(* document fetch and per-document cache.                                  *)
(*                                                                         *)
(* Text is a sequence of one-character strings, so that the substring,     *)
(* prefix, split and case operations of the code are computed and not      *)
(* assumed.  An optional value is <<>> (None / NaN / NaT) or <<v>>.        *)
(* Prices are held in hundredths (1,234.50 is 123450).                     *)
(***************************************************************************)
EXTENDS Integers, Sequences, FiniteSets, TLC

VARIABLES
    \* ---- parse_pdf, one document at a time
    pc,              \* "start" | "rows" | "done": position inside parse_pdf
    pdf_name,        \* pdf_path.name
    file_date,       \* extract_date_from_filename(pdf_path.name): <<year, month>> or NaT
    current_region,  \* the region context of the document being parsed
    data,            \* the records appended so far
    rows,            \* history: the table rows delivered so far for this document
    origin,          \* history: origin[k] is the index in rows of the row behind data[k]
    ctx,             \* history: ctx[i] is current_region just before rows[i] was classified
    pending,         \* history: boundary crossed since the last row: "none" | "table" | "page"
    at_boundary,     \* history: the boundary crossed just before the latest row
    opened,          \* whether this parse_pdf call opened the document for extraction
    prev_region,     \* history: current_region when the previous parse_pdf call returned
    \* ---- process_fertilizer_data, over runs
    published,       \* the documents the listing page links to
    disk,            \* disk[d]: the local file of document d: "absent" | "partial" | "complete"
    csv,             \* csv[d]: the cache artifact of document d: NoFile or its rows
    agg_file,        \* the aggregate artifact: NoFile or <<its rows>>
    phase,           \* "idle" | "download" | "parse" | "aggregate"
    links,           \* links still to download in this run
    pdf_files,       \* pdf_files of this run
    todo,            \* pdf_files still to parse in this run
    all_data,        \* all_data of this run
    full_df,         \* the corpus of the last aggregation (<<>> when none was built)
    message,         \* the last message of the run
    runNo,           \* runs started
    skipped,         \* history: documents download_file returned without fetching, this run
    agg_before,      \* history: agg_file when the run started
    first_run        \* history: what the first run saw and wrote

parse_vars == <<pc, pdf_name, file_date, current_region, data, rows, origin, ctx,
                pending, at_boundary, opened, prev_region>>
run_vars == <<published, disk, csv, agg_file, phase, links, pdf_files, todo, all_data,
              full_df, message, runNo, skipped, agg_before, first_run>>
vars == <<parse_vars, run_vars>>

None == <<>>
Some(v) == <<v>>
NaT == <<>>
NoFile == <<>>

(***************************************************************************)
(* str methods used by the code                                            *)
(***************************************************************************)
LowerAlpha == <<"a","b","c","d","e","f","g","h","i","j","k","l","m","n","o","p","q","r","s","t","u","v","w","x","y","z">>
UpperAlpha == <<"A","B","C","D","E","F","G","H","I","J","K","L","M","N","O","P","Q","R","S","T","U","V","W","X","Y","Z">>
Digits == <<"0","1","2","3","4","5","6","7","8","9">>

InSeq(c, s) == \E i \in 1..Len(s) : s[i] = c
IndexOf(c, s) == CHOOSE i \in 1..Len(s) : s[i] = c

upper(s) == [i \in 1..Len(s) |->
               IF InSeq(s[i], LowerAlpha) THEN UpperAlpha[IndexOf(s[i], LowerAlpha)] ELSE s[i]]
lower(s) == [i \in 1..Len(s) |->
               IF InSeq(s[i], UpperAlpha) THEN LowerAlpha[IndexOf(s[i], UpperAlpha)] ELSE s[i]]

IsSpace(c) == c \in {" ", "\n", "\t", "\r"}

RECURSIVE lstrip(_)
lstrip(s) == IF s # <<>> /\ IsSpace(Head(s)) THEN lstrip(Tail(s)) ELSE s

RECURSIVE rstrip(_)
rstrip(s) == IF s # <<>> /\ IsSpace(s[Len(s)]) THEN rstrip(SubSeq(s, 1, Len(s) - 1)) ELSE s

strip(s) == rstrip(lstrip(s))

MatchesAt(s, i, sub) == i + Len(sub) - 1 <= Len(s) /\ SubSeq(s, i, i + Len(sub) - 1) = sub

contains(s, sub) == \E i \in 1..Len(s) : MatchesAt(s, i, sub)

startswith(s, prefix) == MatchesAt(s, 1, prefix)

RECURSIVE split(_, _)
split(s, c) ==
    IF InSeq(c, s)
    THEN LET first == CHOOSE j \in 1..Len(s) : s[j] = c /\ \A k \in 1..(j - 1) : s[k] # c
         IN  <<SubSeq(s, 1, first - 1)>> \o split(SubSeq(s, first + 1, Len(s)), c)
    ELSE <<s>>

RECURSIVE join(_, _)
join(sep, parts) ==
    IF parts = <<>> THEN <<>>
    ELSE IF Len(parts) = 1 THEN parts[1]
    ELSE parts[1] \o sep \o join(sep, Tail(parts))

RECURSIVE replace(_, _, _)
replace(s, old, new) ==
    IF s = <<>> THEN <<>>
    ELSE (IF Head(s) = old THEN new ELSE <<Head(s)>>) \o replace(Tail(s), old, new)

(***************************************************************************)
(* extract_date_from_filename                                              *)
(***************************************************************************)
months == << <<"j","a","n","u","a","r","y">>, <<"f","e","b","r","u","a","r","y">>, <<"m","a","r","c","h">>, <<"a","p","r","i","l">>, <<"m","a","y">>, <<"j","u","n","e">>, <<"j","u","l","y">>,
             <<"a","u","g","u","s","t">>, <<"s","e","p","t","e","m","b","e","r">>, <<"o","c","t","o","b","e","r">>, <<"n","o","v","e","m","b","e","r">>, <<"d","e","c","e","m","b","e","r">>,
             <<"j","a","n">>, <<"f","e","b">>, <<"m","a","r">>, <<"a","p","r">>, <<"m","a","y">>, <<"j","u","n">>, <<"j","u","l">>, <<"a","u","g">>,
             <<"s","e","p">>, <<"s","e","p","t">>, <<"o","c","t">>, <<"n","o","v">>, <<"d","e","c">> >>

LongestMonth == 9

\* months.sort(key=len, reverse=True): a stable sort, longest first
RECURSIVE sort_by_len(_, _)
sort_by_len(list, n) ==
    IF n = 0 THEN <<>>
    ELSE SelectSeq(list, LAMBDA m : Len(m) = n) \o sort_by_len(list, n - 1)

month_pattern == sort_by_len(months, LongestMonth)

\* re.search(r'(20\d{2})', s): the leftmost match, or None
year_match(s) ==
    LET hit(i) == /\ MatchesAt(s, i, <<"2","0">>)
                  /\ i + 3 <= Len(s)
                  /\ InSeq(s[i + 2], Digits)
                  /\ InSeq(s[i + 3], Digits)
    IN  IF \E i \in 1..Len(s) : hit(i)
        THEN LET i == CHOOSE j \in 1..Len(s) : hit(j) /\ \A k \in 1..(j - 1) : ~hit(k)
             IN  Some(SubSeq(s, i, i + 3))
        ELSE None

\* re.search(month_pattern, s): the leftmost position where an alternative matches,
\* and there the first alternative in the pattern's order
month_match(s) ==
    LET alts == month_pattern
        hit(i) == \E a \in 1..Len(alts) : MatchesAt(s, i, alts[a])
    IN  IF \E i \in 1..Len(s) : hit(i)
        THEN LET i == CHOOSE j \in 1..Len(s) : hit(j) /\ \A k \in 1..(j - 1) : ~hit(k)
                 a == CHOOSE b \in 1..Len(alts) :
                          /\ MatchesAt(s, i, alts[b])
                          /\ \A e \in 1..(b - 1) : ~MatchesAt(s, i, alts[e])
             IN  Some(alts[a])
        ELSE None

DigitValue(c) == IndexOf(c, Digits) - 1

\* int of a 4-digit year text
YearNumber(y) == 1000 * DigitValue(y[1]) + 100 * DigitValue(y[2])
                 + 10 * DigitValue(y[3]) + DigitValue(y[4])

MonthAbbrev == << <<"j","a","n">>, <<"f","e","b">>, <<"m","a","r">>, <<"a","p","r">>, <<"m","a","y">>, <<"j","u","n">>, <<"j","u","l">>, <<"a","u","g">>,
                  <<"s","e","p">>, <<"o","c","t">>, <<"n","o","v">>, <<"d","e","c">> >>

\* pd.to_datetime(f"{month_str} 1 {year}"): the month a name or 3-letter abbreviation
\* stands for; anything else fails to parse
to_datetime(month_str, year) ==
    IF \E i \in 1..12 : months[i] = month_str
    THEN <<YearNumber(year), CHOOSE i \in 1..12 : months[i] = month_str>>
    ELSE IF InSeq(month_str, MonthAbbrev)
    THEN <<YearNumber(year), IndexOf(month_str, MonthAbbrev)>>
    ELSE NaT

extract_date_from_filename(filename) ==
    LET filename_lower == replace(replace(lower(filename), "_", <<"-">>), ".", <<"-">>)
        ym == year_match(filename_lower)
        mm == month_match(filename_lower)
    IN  IF mm # None /\ ym # None
        THEN to_datetime(IF mm[1] = <<"s","e","p","t">> THEN <<"s","e","p">> ELSE mm[1], ym[1])
        ELSE NaT

MonthNames == << <<"J","a","n","u","a","r","y">>, <<"F","e","b","r","u","a","r","y">>, <<"M","a","r","c","h">>, <<"A","p","r","i","l">>, <<"M","a","y">>, <<"J","u","n","e">>,
                 <<"J","u","l","y">>, <<"A","u","g","u","s","t">>, <<"S","e","p","t","e","m","b","e","r">>, <<"O","c","t","o","b","e","r">>, <<"N","o","v","e","m","b","e","r">>,
                 <<"D","e","c","e","m","b","e","r">> >>

\* Timestamp.month_name()
month_name(date) == MonthNames[date[2]]

(***************************************************************************)
(* clean_currency and create_entry                                         *)
(***************************************************************************)
AllDigits(s) == \A i \in 1..Len(s) : InSeq(s[i], Digits)

RECURSIVE IntOf(_)
IntOf(s) == IF s = <<>> THEN 0 ELSE 10 * IntOf(SubSeq(s, 1, Len(s) - 1)) + DigitValue(s[Len(s)])

\* float(text) for plain decimal notation, [sign] digits [. digits], in hundredths
\* (the cells carry at most two decimals); text that is no number raises ValueError,
\* which is None here.  The exponent, underscore, inf and nan spellings that float
\* also accepts do not occur in the cells drawn below.
float(text) ==
    LET signed == text # <<>> /\ Head(text) \in {"-", "+"}
        body == IF signed THEN Tail(text) ELSE text
        parts == split(body, ".")
        whole == parts[1]
        frac == IF Len(parts) = 2 THEN parts[2] ELSE <<>>
        cents == SubSeq(frac \o <<"0","0">>, 1, 2)
        magnitude == 100 * IntOf(whole) + IntOf(cents)
    IN  IF /\ Len(parts) <= 2
           /\ AllDigits(whole) /\ AllDigits(frac)
           /\ Len(whole) + Len(frac) >= 1
        THEN Some(IF signed /\ Head(text) = "-" THEN 0 - magnitude ELSE magnitude)
        ELSE None

\* a cell is None or Some(text)
clean_currency(value) ==
    IF value = None \/ value[1] = <<>> \/ strip(value[1]) = <<>>
    THEN None
    ELSE float(strip(replace(replace(value[1], ",", <<>>), " ", <<>>)))

PriceCols == <<"Urea_Prilled", "Urea_Granular", "Ammosul", "Complete", "Ammophos", "MOP", "DAP">>

NumPrices == 7

create_entry(date, region, province, prices, filename) ==
    LET padded == SubSeq(prices \o [i \in 1..NumPrices |-> None], 1, NumPrices)
    IN  [Date |-> date, Month |-> month_name(date), Year |-> date[1],
         Region |-> region, Province |-> province,
         Urea_Prilled |-> padded[1], Urea_Granular |-> padded[2], Ammosul |-> padded[3],
         Complete |-> padded[4], Ammophos |-> padded[5], MOP |-> padded[6],
         DAP |-> padded[7], Source_File |-> filename]

(***************************************************************************)
(* parse_pdf: the body of the row loop                                     *)
(***************************************************************************)
\* str(row[0])
str(cell) == IF cell = None THEN <<"N","o","n","e">> ELSE cell[1]

\* not row or not str(row[0]).strip()
is_blank_row(row) == row = <<>> \/ strip(str(row[1])) = <<>>

is_header(first_col) ==
    \/ contains(first_col, <<"R","E","G","I","O","N">>) /\ contains(first_col, <<"P","R","O","V","I","N","C","E">>)
    \/ contains(first_col, <<"F","E","R","T","I","L","I","Z","E","R">>) \/ contains(first_col, <<"U","R","E","A">>)
    \/ startswith(first_col, <<"4","6","-","0","-","0">>) \/ first_col = <<"P","R","I","C","E">>

\* the bare-name regions forgotten
is_region_marker_containment_only(first_col) == contains(first_col, <<"R","E","G","I","O","N">>)

is_region_marker(first_col) ==
    contains(first_col, <<"R","E","G","I","O","N">>) \/ first_col \in { <<"C","A","R">>, <<"C","A","R","A","G","A">>, <<"B","A","R","M","M">> }

\* the last line of the cell taken for the region
marker_region_last_line(lines) == strip(lines[Len(lines)])

marker_region(lines) == strip(lines[1])

marker_province(lines) ==
    IF Len(lines) = 1 THEN <<"R","e","g","i","o","n","a","l"," ","S","u","m","m","a","r","y">> ELSE strip(join(<<" ">>, Tail(lines)))

is_average(first_col) == first_col = <<"A","V","E">> \/ first_col = <<"A","V","E","R","A","G","E"," ","P","R","I","C","E">>

\* [clean_currency(c) for c in row[1:8]]
row_prices(row) ==
    LET cells == SubSeq(row, 2, IF Len(row) < NumPrices + 1 THEN Len(row) ELSE NumPrices + 1)
    IN  [i \in 1..Len(cells) |-> clean_currency(cells[i])]

\* the emptiness test left out
any_price_unchecked(prices) == TRUE

\* any(prices): None and 0.0 are both false
any_price(prices) == \E i \in 1..Len(prices) : prices[i] # None /\ prices[i][1] # 0

\* one iteration of "for row in table": the region context after the row and the
\* entry appended to data, if any
parse_row(row, region, date, filename) ==
    IF is_blank_row(row) THEN [region |-> region, entry |-> None]
    ELSE
    LET raw_col == strip(str(row[1]))
        first_col == upper(raw_col)
        prices == row_prices(row)
        emit(reg, province) ==
            IF any_price(prices)
            THEN Some(create_entry(date, reg, province, prices, filename))
            ELSE None
    IN  IF is_header(first_col) THEN [region |-> region, entry |-> None]
        ELSE IF is_region_marker(first_col)
        THEN LET lines == split(raw_col, "\n")
             IN  [region |-> marker_region(lines),
                  entry |-> emit(marker_region(lines), marker_province(lines))]
        ELSE IF is_average(first_col)
        THEN [region |-> region, entry |-> emit(region, <<"R","e","g","i","o","n","a","l"," ","A","v","e","r","a","g","e">>)]
        ELSE [region |-> region,
              entry |-> emit(region, strip(replace(raw_col, "\n", <<" ">>)))]

Unknown == <<"U","n","k","n","o","w","n">>

\* parse_pdf over a whole document: pages of tables of rows
RECURSIVE fold_rows(_, _, _, _)
fold_rows(rs, region, date, filename) ==
    IF rs = <<>> THEN [region |-> region, data |-> <<>>]
    ELSE LET step == parse_row(Head(rs), region, date, filename)
             rest == fold_rows(Tail(rs), step.region, date, filename)
         IN  [region |-> rest.region, data |-> step.entry \o rest.data]

RECURSIVE concat(_)
concat(seqs) == IF seqs = <<>> THEN <<>> ELSE Head(seqs) \o concat(Tail(seqs))

parse_pdf(filename, pages) ==
    LET date == extract_date_from_filename(filename)
    IN  IF date = NaT THEN <<>>
        ELSE fold_rows(concat(concat(pages)), Unknown, date, filename).data

(***************************************************************************)
(* Inputs: table rows and file names                                       *)
(***************************************************************************)
Txt(s) == Some(s)

PricesMixed == << Txt(<<"1",",","2","3","4",".","5","0">>), None, Txt(<<>>), Txt(<<" "," ">>), Txt(<<"N","/","A">>),
                  Txt(<<"0">>), Txt(<<" ","8","5","0"," ">>) >>
PricesNone == << None, Txt(<<>>), Txt(<<" ">>), Txt(<<"N","/","A">>), Txt(<<"-">>), None, Txt(<<"n",".","a",".">>) >>
PricesZero == << Txt(<<"0">>), Txt(<<"0",".","0","0">>), None, None, None, None, None >>
PricesShort == << Txt(<<"8","5","0">>), Txt(<<"9","0","0">>) >>

Rows == {
    <<>>,
    <<None>> \o PricesMixed,
    <<Txt(<<>>)>> \o PricesMixed,
    <<Txt(<<" "," ">>)>> \o PricesMixed,
    <<Txt(<<"R","e","g","i","o","n","/","P","r","o","v","i","n","c","e">>)>> \o PricesMixed,
    <<Txt(<<"U","R","E","A">>)>> \o PricesMixed,
    <<Txt(<<"4","6","-","0","-","0"," ","(","P","r","i","l","l","e","d",")">>)>> \o PricesMixed,
    <<Txt(<<"P","R","I","C","E">>)>> \o PricesMixed,
    <<Txt(<<"R","e","g","i","o","n"," ","V","I","I">>)>> \o PricesNone,
    <<Txt(<<"C","A","R","A","G","A">>)>> \o PricesShort,
    <<Txt(<<"R","E","G","I","O","N"," ","V","I","I","\n","C","e","b","u">>)>> \o PricesMixed,
    <<Txt(<<"A","v","e">>)>> \o PricesMixed,
    <<Txt(<<" ","C","e","b","u"," ">>)>> \o PricesMixed,
    <<Txt(<<"N","e","g","r","o","s","\n","O","r","i","e","n","t","a","l">>)>> \o PricesShort,
    <<Txt(<<"B","o","h","o","l">>)>> \o PricesZero,
    <<Txt(<<"S","i","q","u","i","j","o","r">>)>> \o PricesNone
}

\* the documents handed to parse_pdf, in the caller's order
ParseFiles == << <<"F","P","A","_","F","e","r","t","i","l","i","z","e","r","_","J","u","n","e","_","2","0","2","3",".","p","d","f">>, <<"w","f","p","-","2","0","2","4","-","s","e","p","t","-","w","2",".","p","d","f">>,
                 <<"r","e","p","o","r","t","_","2","0","2","3",".","p","d","f">> >>

NamePrefixes == { <<"F","P","A","_","F","e","r","t","i","l","i","z","e","r">>, <<"W","F","P","-","W","e","e","k","l","y">>, <<"P","r","i","c","e","-","S","u","m","m","a","r","y">>, <<"m","a","r","k","e","t">> }
NameMonths == { <<"S","e","p","t","e","m","b","e","r">>, <<"s","e","p","t">>, <<"S","e","p">>, <<"j","u","n","e">>, <<"M","A","R","C","H">>, <<"m","a","y">>, <<"D","e","c">>,
                <<>> }
NameYears == { <<"2","0","2","3">>, <<"2","0","2","4">>, <<"1","9","9","9">>, <<>> }

\* prefix, month and year joined by a separator, in either order, a part left out
\* when it is empty
Compose(prefix, a, b, sep) ==
    prefix \o (IF a = <<>> THEN <<>> ELSE <<sep>> \o a)
           \o (IF b = <<>> THEN <<>> ELSE <<sep>> \o b) \o <<".","p","d","f">>

DateNames ==
    { Compose(p, m, y, "_") : p \in NamePrefixes, m \in NameMonths, y \in NameYears }
    \cup { Compose(p, y, m, "-") : p \in NamePrefixes, m \in NameMonths, y \in NameYears }

\* the rows that set, keep or read the region context
ContextRows == {
    <<Txt(<<"R","e","g","i","o","n","/","P","r","o","v","i","n","c","e">>)>> \o PricesMixed,
    <<Txt(<<" "," ">>)>> \o PricesMixed,
    <<Txt(<<"R","e","g","i","o","n"," ","V","I","I">>)>> \o PricesNone,
    <<Txt(<<"C","A","R","A","G","A">>)>> \o PricesShort,
    <<Txt(<<"R","E","G","I","O","N"," ","V","I","I","\n","C","e","b","u">>)>> \o PricesMixed,
    <<Txt(<<"A","v","e">>)>> \o PricesMixed,
    <<Txt(<<" ","C","e","b","u"," ">>)>> \o PricesMixed
}

MaxRows == 2
MaxContextRows == 3

(***************************************************************************)
(* parse_pdf as steps: the document is opened, its rows arrive one at a    *)
(* time across table and page boundaries, and the records are returned     *)
(***************************************************************************)
IdleRun ==
    /\ published = {} /\ disk = <<>> /\ csv = <<>> /\ agg_file = NoFile
    /\ phase = "idle" /\ links = <<>> /\ pdf_files = <<>> /\ todo = <<>>
    /\ all_data = <<>> /\ full_df = <<>> /\ message = "none" /\ runNo = 0
    /\ skipped = {} /\ agg_before = NoFile /\ first_run = None

FreshParse(name) ==
    /\ pc = "start" /\ pdf_name = name /\ file_date = NaT
    /\ current_region = Unknown /\ data = <<>> /\ rows = <<>> /\ origin = <<>>
    /\ ctx = <<>> /\ pending = "none" /\ at_boundary = "none" /\ opened = FALSE

InitParse == /\ FreshParse(ParseFiles[1])
             /\ prev_region = None
             /\ IdleRun

InitDate == /\ \E name \in DateNames : FreshParse(name)
            /\ prev_region = None
            /\ IdleRun

\* lines 144-150: the date is inferred; an undetermined date returns the empty
\* frame before the document is opened
OpenPdf ==
    /\ pc = "start"
    /\ file_date' = extract_date_from_filename(pdf_name)
    /\ IF file_date' = NaT
       THEN /\ pc' = "done"
            /\ UNCHANGED <<current_region, opened, pending>>
       ELSE /\ pc' = "rows"
            /\ current_region' = Unknown
            /\ opened' = TRUE
            /\ pending' = "page"
    /\ data' = <<>>
    /\ UNCHANGED <<pdf_name, rows, origin, ctx, at_boundary, prev_region, run_vars>>

\* line 151: the loop moves to the next page
NextPage(limit) ==
    /\ pc = "rows" /\ pending # "page" /\ Len(rows) < limit
    /\ pending' = "page"
    /\ UNCHANGED <<pc, pdf_name, file_date, current_region, data, rows, origin, ctx,
                   at_boundary, opened, prev_region, run_vars>>

\* line 152: the loop moves to the next table of the page
NextTable(limit) ==
    /\ pc = "rows" /\ pending = "none" /\ Len(rows) < limit
    /\ pending' = "table"
    /\ UNCHANGED <<pc, pdf_name, file_date, current_region, data, rows, origin, ctx,
                   at_boundary, opened, prev_region, run_vars>>

\* lines 153-184: one row of the current table
NextRow(row, limit) ==
    /\ pc = "rows" /\ Len(rows) < limit
    /\ LET step == parse_row(row, current_region, file_date, pdf_name)
       IN  /\ current_region' = step.region
           /\ data' = data \o step.entry
           /\ origin' = IF step.entry = None THEN origin ELSE Append(origin, Len(rows) + 1)
    /\ rows' = Append(rows, row)
    /\ ctx' = Append(ctx, current_region)
    /\ at_boundary' = pending
    /\ pending' = "none"
    /\ UNCHANGED <<pc, pdf_name, file_date, opened, prev_region, run_vars>>

\* line 185: the records are returned
ClosePdf ==
    /\ pc = "rows"
    /\ pc' = "done"
    /\ prev_region' = Some(current_region)
    /\ pending' = "none"
    /\ UNCHANGED <<pdf_name, file_date, current_region, data, rows, origin, ctx,
                   at_boundary, opened, run_vars>>

\* lines 209-217: the caller parses its next document
NextDocument ==
    /\ pc = "done" /\ IndexOf(pdf_name, ParseFiles) < Len(ParseFiles)
    /\ pc' = "start" /\ pdf_name' = ParseFiles[IndexOf(pdf_name, ParseFiles) + 1]
    /\ file_date' = NaT
    /\ current_region' = Unknown /\ data' = <<>> /\ rows' = <<>> /\ origin' = <<>>
    /\ ctx' = <<>> /\ pending' = "none" /\ at_boundary' = "none" /\ opened' = FALSE
    /\ UNCHANGED <<prev_region, run_vars>>

NextParse ==
    \/ OpenPdf
    \/ NextPage(MaxRows)
    \/ NextTable(MaxRows)
    \/ \E row \in Rows : NextRow(row, MaxRows)
    \/ ClosePdf
    \/ NextDocument

\* longer documents over the rows that bear on the region context
NextContext ==
    \/ OpenPdf
    \/ NextPage(MaxContextRows)
    \/ NextTable(MaxContextRows)
    \/ \E row \in ContextRows : NextRow(row, MaxContextRows)
    \/ ClosePdf
    \/ NextDocument

NextDate == OpenPdf

SpecParse == InitParse /\ [][NextParse]_vars
SpecContext == InitParse /\ [][NextContext]_vars
SpecDate == InitDate /\ [][NextDate]_vars

(***************************************************************************)
(* Data frames, the cache artifact and the monthly aggregate               *)
(***************************************************************************)
\* NaN in a text column: no text equals it
Null == <<"NaN">>

\* the default NA markers of pd.read_csv met in the inputs, "" among them
NaStrings == { <<>>, <<"N","/","A">>, <<"N","A">>, <<"n","/","a">>, <<"N","U","L","L">>, <<"n","u","l","l">>, <<"N","a","N">>, <<"n","a","n">>,
               <<"N","o","n","e">> }

TextCols == {"Month", "Region", "Province", "Source_File"}

\* df.to_csv(csv_name, index=False): a missing value is written as the empty field
to_csv(df) ==
    [k \in 1..Len(df) |->
        [c \in DOMAIN df[k] |->
            IF c \in TextCols /\ df[k][c] = Null THEN <<>> ELSE df[k][c]]]

\* pd.read_csv(csv_name): a text field that spells an NA marker is read as NaN
read_csv(file) ==
    [k \in 1..Len(file) |->
        [c \in DOMAIN file[k] |->
            IF c \in TextCols /\ file[k][c] \in NaStrings THEN Null ELSE file[k][c]]]

\* full_df['Region'].str.contains("REGION VII", case=False, na=False)
in_region_7(rec) == rec.Region # Null /\ contains(upper(rec.Region), <<"R","E","G","I","O","N"," ","V","I","I">>)

region_filter(df) == SelectSeq(df, in_region_7)

Sentinels == { <<"R","e","g","i","o","n","a","l"," ","S","u","m","m","a","r","y">>, <<"R","e","g","i","o","n","a","l"," ","A","v","e","r","a","g","e">> }

\* region_7_df[~region_7_df['Province'].isin([...])]
not_sentinel(rec) == rec.Province \notin Sentinels

exclude_sentinels(df) == SelectSeq(df, not_sentinel)

GroupKey(rec) == <<rec.Year, rec.Month, rec.Region, rec.Province>>

\* groupby(...) keeps no group whose key holds a NaN (Year is a number in every
\* record, the text keys may be NaN)
has_key(rec) == rec.Month # Null /\ rec.Region # Null /\ rec.Province # Null

RECURSIVE Sum(_)
Sum(s) == IF s = <<>> THEN 0 ELSE Head(s) + Sum(Tail(s))

RECURSIVE GCD(_, _)
GCD(a, b) == IF b = 0 THEN a ELSE GCD(b, a % b)

Abs(n) == IF n < 0 THEN 0 - n ELSE n

\* the mean of the values present, as a fraction in lowest terms; NaN when none is
mean(values) ==
    LET present == SelectSeq(values, LAMBDA v : v # None)
        total == Sum([i \in 1..Len(present) |-> present[i][1]])
        g == GCD(Abs(total), Len(present))
    IN  IF present = <<>> THEN None
        ELSE Some(<<total \div g, Len(present) \div g>>)

\* characters in code point order
CodeOrder == <<"\n"," ","#","(",")","-",".","/","0","1","2","3","4","5","6","7","8","9","<",">","A","B","C","D","E","F","G","H","I","J","K","L","M","N","O","P","Q","R","S","T","U","V","W","X","Y","Z","_","a","b","c","d","e","f","g","h","i","j","k","l","m","n","o","p","q","r","s","t","u","v","w","x","y","z">>

RECURSIVE TextLeq(_, _)
TextLeq(a, b) ==
    IF a = <<>> THEN TRUE
    ELSE IF b = <<>> THEN FALSE
    ELSE IF Head(a) = Head(b) THEN TextLeq(Tail(a), Tail(b))
    ELSE IndexOf(Head(a), CodeOrder) < IndexOf(Head(b), CodeOrder)

\* sort_values(by=["Date", "Province"]) over the groups, which groupby left in key
\* order: ties keep the order of Region
RowLeq(a, b) ==
    IF a.Date # b.Date
    THEN a.Date[1] < b.Date[1] \/ (a.Date[1] = b.Date[1] /\ a.Date[2] < b.Date[2])
    ELSE IF a.Province # b.Province THEN TextLeq(a.Province, b.Province)
    ELSE TextLeq(a.Region, b.Region)

RECURSIVE sort_values(_)
sort_values(S) ==
    IF S = {} THEN <<>>
    ELSE LET least == CHOOSE x \in S : \A y \in S : RowLeq(x, y)
         IN  <<least>> \o sort_values(S \ {least})

MonthNumber(name) == IndexOf(name, MonthNames)

\* lines 236-244: one row per group, each price the mean over the group
monthly(df) ==
    LET kept == SelectSeq(df, has_key)
        keys == { GroupKey(kept[k]) : k \in 1..Len(kept) }
        group(key) == SelectSeq(kept, LAMBDA r : GroupKey(r) = key)
        col(key, c) == LET g == group(key) IN mean([i \in 1..Len(g) |-> g[i][c]])
        row(key) ==
            [Date |-> <<key[1], MonthNumber(key[2])>>, Year |-> key[1], Month |-> key[2],
             Region |-> key[3], Province |-> key[4],
             Urea_Prilled |-> col(key, "Urea_Prilled"),
             Urea_Granular |-> col(key, "Urea_Granular"),
             Ammosul |-> col(key, "Ammosul"), Complete |-> col(key, "Complete"),
             Ammophos |-> col(key, "Ammophos"), MOP |-> col(key, "MOP"),
             DAP |-> col(key, "DAP")]
    IN  sort_values({ row(key) : key \in keys })

(***************************************************************************)
(* The published documents                                                 *)
(***************************************************************************)
PriceRow(first, price) == <<first, Txt(price), None, None, None, None, None, None>>
BareRow(first) == <<first, None, None, None, None, None, None, None>>

Corpus == <<
    [name |-> <<"F","P","A","_","F","e","r","t","i","l","i","z","e","r","_","J","u","n","e","_","2","0","2","3","_","w","1",".","p","d","f">>,
     pages |-> << << << BareRow(Txt(<<"R","E","G","I","O","N","/","P","R","O","V","I","N","C","E">>)),
                        BareRow(Txt(<<"R","E","G","I","O","N"," ","V","I","I">>)),
                        PriceRow(Txt(<<"C","e","b","u">>), <<"1","0","0",".","0","0">>),
                        PriceRow(Txt(<<"B","o","h","o","l">>), <<"1",",","2","3","4",".","5","0">>) >> >> >>],
    [name |-> <<"F","P","A","_","F","e","r","t","i","l","i","z","e","r","_","J","u","n","e","_","2","0","2","3","_","w","2",".","p","d","f">>,
     pages |-> << << << PriceRow(Txt(<<"R","E","G","I","O","N"," ","V","I","I","\n","C","e","b","u">>), <<"2","0","0",".","0","0">>) >> >>,
                  << << PriceRow(Txt(<<"A","V","E">>), <<"1","5","0">>) >>,
                     << BareRow(Txt(<<"R","E","G","I","O","N"," ","V","I","I","I">>)),
                        PriceRow(Txt(<<"L","e","y","t","e">>), <<"3","0","0">>) >> >> >>],
    [name |-> <<"w","f","p","-","j","u","l","y","-","2","0","2","3",".","p","d","f">>,
     pages |-> << << << PriceRow(Txt(<<"R","E","G","I","O","N"," ","V","I","I">>), <<"5","0","0",".","0","0">>) >> >> >>],
    [name |-> <<"f","p","a","_","a","u","g","_","2","0","2","3",".","p","d","f">>,
     pages |-> << << << BareRow(Txt(<<"R","e","g","i","o","n"," ","V","I","I">>)),
                        PriceRow(Txt(<<"N","/","A">>), <<"1","0","0">>),
                        PriceRow(Txt(<<"S","i","q","u","i","j","o","r">>), <<"2","5","0">>) >> >> >>],
    [name |-> <<"r","e","p","o","r","t","_","2","0","2","3",".","p","d","f">>,
     pages |-> << << << BareRow(Txt(<<"R","E","G","I","O","N"," ","V","I","I">>)),
                        PriceRow(Txt(<<"C","e","b","u">>), <<"1","0","0",".","0","0">>) >> >> >>],
    [name |-> <<"f","p","a","-","2","0","2","4","-","s","e","p","t",".","p","d","f">>,
     pages |-> << << << PriceRow(Txt(<<"C","A","R","A","G","A">>), <<"8","5","0">>),
                        PriceRow(Txt(<<"A","g","u","s","a","n">>), <<"1","0">>) >> >> >>]
>>

Docs == 1..Len(Corpus)

MaxLinks == 2
MaxRuns == 2

\* every ordering of a set, as sequences
RECURSIVE Orderings(_)
Orderings(S) ==
    IF S = {} THEN { <<>> }
    ELSE UNION { { <<x>> \o rest : rest \in Orderings(S \ {x}) } : x \in S }

Range(s) == { s[i] : i \in 1..Len(s) }

(***************************************************************************)
(* process_fertilizer_data                                                 *)
(***************************************************************************)
IdleParse == /\ FreshParse(ParseFiles[1]) /\ prev_region = None

InitRun ==
    /\ IdleParse
    /\ published \in { S \in SUBSET Docs : Cardinality(S) <= MaxLinks }
    /\ disk = [d \in Docs |-> "absent"]
    /\ csv = [d \in Docs |-> NoFile]
    /\ agg_file = NoFile
    /\ phase = "idle" /\ links = <<>> /\ pdf_files = <<>> /\ todo = <<>>
    /\ all_data = <<>> /\ full_df = <<>> /\ message = "none" /\ runNo = 0
    /\ skipped = {} /\ agg_before = NoFile /\ first_run = None

\* lines 62-76 and 192-199: the listing yields the links, in the order of list(set(...)),
\* or nothing when the request fails or the page links no document
get_pdf_links ==
    /\ phase = "idle" /\ runNo < MaxRuns
    /\ runNo' = runNo + 1
    /\ agg_before' = agg_file
    /\ skipped' = {}
    /\ pdf_files' = <<>> /\ todo' = <<>> /\ all_data' = <<>> /\ full_df' = <<>>
    /\ \E found \in Orderings(published) \cup { <<>> } :
           /\ links' = found
           /\ IF found = <<>>
              THEN phase' = "idle" /\ message' = "no_links"
              ELSE phase' = "download" /\ message' = "none"
    /\ UNCHANGED <<published, disk, csv, agg_file, first_run, parse_vars>>

\* lines 78-104 and 200-204: one link of the loop.  A file that exists is returned
\* as it is; otherwise the fetch succeeds, fails before the file is opened for
\* writing, or fails after it was opened, which leaves what was written so far
download_file(outcome) ==
    /\ phase = "download" /\ links # <<>>
    /\ LET d == Head(links)
       IN  IF disk[d] # "absent"
           THEN /\ outcome = "exists"
                /\ pdf_files' = Append(pdf_files, d)
                /\ skipped' = skipped \cup {d}
                /\ disk' = disk
           ELSE /\ outcome # "exists"
                /\ skipped' = skipped
                /\ pdf_files' = IF outcome = "fetched" THEN Append(pdf_files, d) ELSE pdf_files
                /\ disk' = [disk EXCEPT ![d] = CASE outcome = "fetched" -> "complete"
                                                 [] outcome = "refused" -> "absent"
                                                 [] outcome = "cut" -> "partial"]
    /\ links' = Tail(links)
    /\ todo' = pdf_files'
    /\ phase' = IF links' # <<>> THEN "download"
                ELSE IF pdf_files' # <<>> THEN "parse" ELSE "aggregate"
    /\ UNCHANGED <<published, csv, agg_file, all_data, full_df, message, runNo,
                   agg_before, first_run, parse_vars>>

\* lines 211-215: the cache artifact of the next file exists and is loaded
load_cache ==
    /\ phase = "parse" /\ todo # <<>>
    /\ csv[Head(todo)] # NoFile
    /\ all_data' = Append(all_data, read_csv(csv[Head(todo)][1]))
    /\ todo' = Tail(todo)
    /\ phase' = IF todo' # <<>> THEN "parse" ELSE "aggregate"
    /\ UNCHANGED <<published, disk, csv, agg_file, links, pdf_files, full_df, message,
                   runNo, skipped, agg_before, first_run, parse_vars>>

\* the numbers of leading pages pdfplumber can deliver from the local file: all of
\* them when the file is whole, fewer when it was cut short
Readable(d) ==
    IF disk[d] = "complete" THEN { Len(Corpus[d].pages) }
    ELSE 0..(Len(Corpus[d].pages) - 1)

\* lines 216-220: no cache artifact: the document is parsed and a non-empty result
\* is cached
parse_document(n) ==
    /\ phase = "parse" /\ todo # <<>>
    /\ csv[Head(todo)] = NoFile
    /\ n \in Readable(Head(todo))
    /\ LET d == Head(todo)
           df == parse_pdf(Corpus[d].name, SubSeq(Corpus[d].pages, 1, n))
       IN  IF df # <<>>
           THEN /\ csv' = [csv EXCEPT ![d] = Some(to_csv(df))]
                /\ all_data' = Append(all_data, df)
           ELSE UNCHANGED <<csv, all_data>>
    /\ todo' = Tail(todo)
    /\ phase' = IF todo' # <<>> THEN "parse" ELSE "aggregate"
    /\ UNCHANGED <<published, disk, agg_file, links, pdf_files, full_df, message, runNo,
                   skipped, agg_before, first_run, parse_vars>>

\* lines 221-222: a file cut short makes the extraction raise, which the loop
\* swallows, unless the date is undetermined and the file is never opened
parse_raises ==
    /\ phase = "parse" /\ todo # <<>>
    /\ csv[Head(todo)] = NoFile
    /\ disk[Head(todo)] = "partial"
    /\ extract_date_from_filename(Corpus[Head(todo)].name) # NaT
    /\ todo' = Tail(todo)
    /\ phase' = IF todo' # <<>> THEN "parse" ELSE "aggregate"
    /\ UNCHANGED <<published, disk, csv, agg_file, links, pdf_files, all_data, full_df,
                   message, runNo, skipped, agg_before, first_run, parse_vars>>

\* lines 225-249: concatenation, regional filter, sentinel exclusion, grouping,
\* sorting and the write of the aggregate
aggregate ==
    /\ phase = "aggregate"
    /\ phase' = "idle"
    /\ IF all_data = <<>>
       THEN /\ message' = "no_data"
            /\ UNCHANGED <<full_df, agg_file>>
       ELSE /\ full_df' = concat(all_data)
            /\ IF region_filter(full_df') = <<>>
               THEN /\ message' = "no_region"
                    /\ UNCHANGED agg_file
               ELSE /\ agg_file' = Some(monthly(exclude_sentinels(region_filter(full_df'))))
                    /\ message' = "saved"
    /\ first_run' = IF runNo = 1
                    THEN Some([files |-> Range(pdf_files),
                               whole |-> \A d \in Range(pdf_files) : disk[d] = "complete",
                               message |-> message',
                               out |-> agg_file'])
                    ELSE first_run
    /\ UNCHANGED <<published, disk, csv, links, pdf_files, todo, all_data, runNo,
                   skipped, agg_before, parse_vars>>

MaxPages == 2

NextRun ==
    \/ get_pdf_links
    \/ \E outcome \in {"exists", "fetched", "refused", "cut"} : download_file(outcome)
    \/ load_cache
    \/ \E n \in 0..MaxPages : parse_document(n)
    \/ parse_raises
    \/ aggregate

SpecRun == InitRun /\ [][NextRun]_vars

(***************************************************************************)
(* Properties of parse_pdf                                                 *)
(***************************************************************************)
RecordsOf(i) == { k \in 1..Len(data) : origin[k] = i }

RegionBeforeRow(i) == ctx[i]
RegionAfterRow(i) == IF i < Len(rows) THEN ctx[i + 1] ELSE current_region

HasAPrice(rec) == \E i \in 1..NumPrices : rec[PriceCols[i]] # None

\* the 7 cells after the first all normalize to "no value" (a missing cell has none)
AllNoValue(row) ==
    \A j \in 2..(NumPrices + 1) : j > Len(row) \/ clean_currency(row[j]) = None

\* C1: every record parse_pdf emits has at least one of its 7 price fields non-null,
\* and a row whose 7 normalized price cells are all "no value" produces no record.
C1_EveryRecordHasAPrice ==
    /\ \A k \in 1..Len(data) : HasAPrice(data[k])
    /\ \A i \in 1..Len(rows) : AllNoValue(rows[i]) => RecordsOf(i) = {}

C1_Witness ==
    /\ Len(rows) = 2
    /\ rows[1] = <<Txt(<<" ","C","e","b","u"," ">>)>> \o PricesMixed /\ RecordsOf(1) # {}
    /\ rows[2] = <<Txt(<<"S","i","q","u","i","j","o","r">>)>> \o PricesNone /\ RecordsOf(2) = {}
    /\ data[1].Urea_Prilled = Some(123450) /\ data[1].Urea_Granular = None

\* The first cell is text that is not blank
HasTextFirstCell(row) == row # <<>> /\ row[1] # None /\ strip(row[1][1]) # <<>>

CellText(row) == strip(row[1][1])
CellLines(row) == split(CellText(row), "\n")

\* The ordered rule table of the row classifier, applied to the trimmed first cell
\* in upper case: the number of the first rule that matches
RuleFor(row) ==
    LET t == upper(CellText(row))
    IN  IF contains(t, <<"R","E","G","I","O","N">>) /\ contains(t, <<"P","R","O","V","I","N","C","E">>) THEN 2
        ELSE IF contains(t, <<"F","E","R","T","I","L","I","Z","E","R">>) \/ contains(t, <<"U","R","E","A">>) THEN 3
        ELSE IF startswith(t, <<"4","6","-","0","-","0">>) \/ t = <<"P","R","I","C","E">> THEN 4
        ELSE IF contains(t, <<"R","E","G","I","O","N">>) \/ t = <<"C","A","R">> \/ t = <<"C","A","R","A","G","A">> \/ t = <<"B","A","R","M","M">>
             THEN 5
        ELSE IF t = <<"A","V","E">> \/ t = <<"A","V","E","R","A","G","E"," ","P","R","I","C","E">> THEN 6
        ELSE 7

RuleOfRow == [row \in { r \in Rows : HasTextFirstCell(r) } |-> RuleFor(row)]

RuleOf(row) == RuleOfRow[row]

FirstLine(row) == strip(CellLines(row)[1])

MarkerLabel(row) ==
    IF Len(CellLines(row)) = 1 THEN <<"R","e","g","i","o","n","a","l"," ","S","u","m","m","a","r","y">>
    ELSE strip(join(<<" ">>, Tail(CellLines(row))))

Flattened(row) == strip(replace(CellText(row), "\n", <<" ">>))

Carries(i, region, province) ==
    \A k \in RecordsOf(i) : data[k].Region = region /\ data[k].Province = province

\* C2: a row whose first cell is non-blank text is classified by the ordered rule
\* table, first match wins, the tests reading the trimmed cell in upper case:
\* rules 2-4 skip the row (no record, region context unchanged); rule 5 makes the
\* cell's first line the region context, with the label "Regional Summary" for a
\* one-line cell and the remaining lines joined by spaces otherwise; rule 6 labels
\* the row "Regional Average" and rule 7 labels it with the flattened cell, both
\* under the unchanged region context; an emitted record carries exactly that
\* region and label.
C2_RuleTable ==
    \A i \in 1..Len(rows) :
        HasTextFirstCell(rows[i]) =>
            LET rule == RuleOf(rows[i])
                before == RegionBeforeRow(i)
                after == RegionAfterRow(i)
            IN  /\ Cardinality(RecordsOf(i)) <= 1
                /\ rule \in {2, 3, 4} => RecordsOf(i) = {} /\ after = before
                /\ rule = 5 => /\ after = FirstLine(rows[i])
                               /\ Carries(i, FirstLine(rows[i]), MarkerLabel(rows[i]))
                /\ rule = 6 => after = before /\ Carries(i, before, <<"R","e","g","i","o","n","a","l"," ","A","v","e","r","a","g","e">>)
                /\ rule = 7 => after = before /\ Carries(i, before, Flattened(rows[i]))

C2_Witness ==
    /\ Len(rows) = 2
    /\ rows[1] = <<Txt(<<"C","A","R","A","G","A">>)>> \o PricesShort
    /\ rows[2] = <<Txt(<<"N","e","g","r","o","s","\n","O","r","i","e","n","t","a","l">>)>> \o PricesShort
    /\ Len(data) = 2
    /\ data[1].Region = <<"C","A","R","A","G","A">> /\ data[1].Province = <<"R","e","g","i","o","n","a","l"," ","S","u","m","m","a","r","y">>
    /\ data[2].Region = <<"C","A","R","A","G","A">> /\ data[2].Province = <<"N","e","g","r","o","s"," ","O","r","i","e","n","t","a","l">>

\* The first cell is empty, whitespace-only or missing
HasBlankFirstCell(row) == row # <<>> /\ (row[1] = None \/ strip(row[1][1]) = <<>>)

\* C3: a row whose first cell is empty, whitespace-only or missing is skipped: no
\* record, whatever its price cells hold, and the region context unchanged.
C3_BlankFirstCellSkipped ==
    \A i \in 1..Len(rows) :
        HasBlankFirstCell(rows[i]) =>
            RecordsOf(i) = {} /\ RegionAfterRow(i) = RegionBeforeRow(i)

IsMarkerRow(row) == HasTextFirstCell(row) /\ RuleOf(row) = 5

MarkersBefore(i) == { j \in 1..(i - 1) : IsMarkerRow(rows[j]) }

\* the region set by the most recent region-marker row before row i of this
\* document, "Unknown" when there is none
RegionInForce(i) ==
    IF MarkersBefore(i) = {} THEN Unknown
    ELSE FirstLine(rows[CHOOSE j \in MarkersBefore(i) : \A m \in MarkersBefore(i) : m <= j])

\* C4: a record from a province or average row carries the region of the most
\* recent region-marker row before it in its own document's row sequence, whatever
\* skip rows, table boundaries and page boundaries lie between, and "Unknown" when
\* there is none; the context of an earlier document plays no part.
C4_RegionOfLatestMarker ==
    /\ \A k \in 1..Len(data) :
           ~IsMarkerRow(rows[origin[k]]) => data[k].Region = RegionInForce(origin[k])
    /\ rows = <<>> /\ pc = "rows" => current_region = Unknown

C4_Witness ==
    /\ prev_region = Some(<<"C","A","R","A","G","A">>)
    /\ Len(rows) = 3 /\ Len(data) = 1
    /\ rows[1] = <<Txt(<<"R","e","g","i","o","n"," ","V","I","I">>)>> \o PricesNone
    /\ rows[2] = <<Txt(<<"R","e","g","i","o","n","/","P","r","o","v","i","n","c","e">>)>> \o PricesMixed
    /\ at_boundary = "page"
    /\ origin[1] = 3
    /\ data[1].Region = <<"R","e","g","i","o","n"," ","V","I","I">> /\ data[1].Province = <<"C","e","b","u">>

(***************************************************************************)
(* Properties of extract_date_from_filename                                *)
(***************************************************************************)
\* the separator-delimited tokens of the file name, in lower case
NameTokens(name) == split(replace(replace(lower(name), "_", <<"-">>), ".", <<"-">>), "-")

IsYearToken(t) ==
    Len(t) = 4 /\ t[1] = "2" /\ t[2] = "0" /\ InSeq(t[3], Digits) /\ InSeq(t[4], Digits)

IsMonthToken(t) == InSeq(t, months)

MonthOfToken(t) ==
    IF t = <<"s","e","p","t">> THEN 9
    ELSE IF InSeq(t, MonthAbbrev) THEN IndexOf(t, MonthAbbrev)
    ELSE CHOOSE i \in 1..12 : months[i] = t

\* C6: with one 20xx year token and one month token among the name's tokens the
\* result is the first of that month and year, whatever the other tokens are; with
\* no year or no month name the result is undetermined and parse_pdf returns no
\* record without opening the document.
C6_DateFromNameTokens ==
    pc # "start" =>
        LET toks == NameTokens(pdf_name)
            ys == { i \in 1..Len(toks) : IsYearToken(toks[i]) }
            ms == { i \in 1..Len(toks) : IsMonthToken(toks[i]) }
        IN  /\ Cardinality(ys) = 1 /\ Cardinality(ms) = 1 =>
                   file_date = << YearNumber(toks[CHOOSE i \in ys : TRUE]),
                                  MonthOfToken(toks[CHOOSE i \in ms : TRUE]) >>
            /\ ys = {} \/ ms = {} => file_date = NaT /\ data = <<>> /\ ~opened

(***************************************************************************)
(* Properties of process_fertilizer_data                                   *)
(***************************************************************************)
\* the label names region VII: the word REGION followed by the numeral VII
NamesRegionSeven(text) ==
    LET words == split(upper(text), " ")
    IN  \E i \in 1..(Len(words) - 1) : words[i] = <<"R","E","G","I","O","N">> /\ words[i + 1] = <<"V","I","I">>

\* C5: every row of the written aggregate belongs to region VII; a record extracted
\* under a marker naming another region (REGION VI, REGION VIII, CARAGA) reaches no
\* aggregate row.
C5_AggregateOnlyRegionSeven ==
    agg_file # NoFile =>
        \A i \in 1..Len(agg_file[1]) : NamesRegionSeven(agg_file[1][i].Region)

SameRecords(a, b) ==
    /\ Len(a) = Len(b)
    /\ \A k \in 1..Len(a) :
           /\ a[k].Region = b[k].Region /\ a[k].Province = b[k].Province
           /\ a[k].Date = b[k].Date
           /\ \A i \in 1..NumPrices : a[k][PriceCols[i]] = b[k][PriceCols[i]]

\* both runs discovered every published document and had each one whole on disk
SameDocumentsTwice ==
    /\ phase = "idle" /\ runNo = 2 /\ first_run # None
    /\ published # {}
    /\ first_run[1].whole
    /\ first_run[1].files = published
    /\ Range(pdf_files) = published
    /\ \A d \in Range(pdf_files) : disk[d] = "complete"

\* C7: a second run over the same documents loads from each cache artifact the
\* records that parsing produced, and writes the aggregate the first run wrote.
C7_SecondRunSameAggregate ==
    SameDocumentsTwice =>
        /\ \A d \in Range(pdf_files) :
               csv[d] # NoFile =>
                   SameRecords(read_csv(csv[d][1]),
                               parse_pdf(Corpus[d].name, Corpus[d].pages))
        /\ message = first_run[1].message
        /\ agg_file = first_run[1].out

\* the region-filtered records of the corpus whose province is no sentinel label
ProvinceRecords == SelectSeq(region_filter(full_df), LAMBDA r : r.Province \notin Sentinels)

ValuesOf(key, c) ==
    LET g == SelectSeq(ProvinceRecords, LAMBDA r : GroupKey(r) = key /\ r[c] # None)
    IN  [i \in 1..Len(g) |-> g[i][c][1]]

\* C8: the aggregate has exactly one row for each (year, month, region, province)
\* key among the region-filtered records with a non-sentinel province and no other
\* row, and each price of the row is the mean of that price over the records of
\* the key.
C8_OneRowPerKeyWithMeans ==
    phase = "idle" /\ message = "saved" =>
        LET out == agg_file[1]
        IN  /\ \A k \in 1..Len(ProvinceRecords) :
                   Cardinality({ i \in 1..Len(out) :
                                   GroupKey(out[i]) = GroupKey(ProvinceRecords[k]) }) = 1
            /\ \A i \in 1..Len(out) :
                   /\ \E k \in 1..Len(ProvinceRecords) :
                          GroupKey(ProvinceRecords[k]) = GroupKey(out[i])
                   /\ \A p \in 1..NumPrices :
                          LET vals == ValuesOf(GroupKey(out[i]), PriceCols[p])
                              cell == out[i][PriceCols[p]]
                          IN  IF vals = <<>> THEN cell = None
                              ELSE /\ cell # None
                                   /\ cell[1][1] * Len(vals) = Sum(vals) * cell[1][2]

\* the run ended with nothing to aggregate: no link, no record from any document,
\* or no record left after the regional filter and the sentinel exclusion
NothingToAggregate ==
    \/ all_data = <<>>
    \/ SelectSeq(region_filter(concat(all_data)), LAMBDA r : r.Province \notin Sentinels) = <<>>

\* C9: a run that ends with nothing to aggregate reports an empty result and leaves
\* the aggregate artifact as it was before the run.
C9_EmptyResultWritesNothing ==
    phase = "idle" /\ runNo >= 1 /\ NothingToAggregate =>
        /\ message \in {"no_links", "no_data", "no_region"}
        /\ agg_file = agg_before

\* C10: a local file that download_file takes as present, and so does not fetch
\* again, holds the whole document.
C10_PresentFilesAreWhole == \A d \in skipped : disk[d] = "complete"

====
